---- MODULE Spec2Model ----
\* The two scaffolding generators of the repository, scaffold.py (data project,
\* create_project) and scaffold_package.py (package project,
\* create_project_structure), as state machines over a directory tree.
\*
\* A generator run is the sequence of file-system calls its code makes: os.mkdir
\* (through Path.mkdir(parents=True, exist_ok=True)), Path.touch, open(path, "w"),
\* the write that the with-block flushes on close, os.chmod, and the clock read of
\* create_license. Each call is one atomic step; any file-system call may raise,
\* and a write that raises may have written the first bytes of its text. After
\* the generator has returned, main prints its messages, one print statement a
\* step, and the process exits; a print or the flush at exit may fail as well.
\* Before the generator is called, parse_args may end the process: with the help
\* text and exit code 0, or, on a wrong command line, with exit code 2.
\* File contents are the bytes of the literal texts of the source.
EXTENDS Integers, Sequences, FiniteSets, TLC

VARIABLES
    kind,      \* which generator runs: "data" (scaffold.py) or "package" (scaffold_package.py)
    name,      \* args.project_name
    argv,      \* how the command line is written: "name", "help" or "invalid"
    fs0,       \* the directory tree under base_path/name before the run (of runs in a
               \* row, before the latest one started; of concurrent runs, before both)
    fs,        \* the directory tree under base_path/name now
    now,       \* the calendar year datetime.now().year returned when it was last asked
    status,    \* per run: "idle", "running", "failed" (uncaught exception), "done", or
               \* "usage" (parse_args ended the process before the generator was called)
    pc,        \* per run: index of the next file-system call of the generator
    yr,        \* per run: current_year as read by create_license (0 before)
    log,       \* per run: the relative paths of the files written so far, in order
    snap,      \* per run: the tree as it was when the run's last completed step ended
    printed,   \* per run: how many of the print statements of main have been executed
    out,       \* per run: the bytes that have reached standard output
    exit       \* per run: the process exit code (-1 while the process lives)

vars == <<kind, name, argv, fs0, fs, now, status, pc, yr, log, snap, printed, out, exit>>

----------------------------------------------------------------------------
\* Bounds of the model.

\* How many entries may exist under an otherwise empty project directory before
\* the first run.
MaxPre == 1

\* The same, for the two concurrent runs.
MaxPreConc == 1

\* How many years the clock may move on during a behaviour.
MaxTicks == 1

\* The runs: run 1 and run 2 of the same command line.
Procs == {1, 2}

\* The project names tried.
Names == {"demo", "mypkg"}

Kinds == {"data", "package"}

Years == 2026..(2026 + MaxTicks)

\* What a file that existed before the first run holds.
OldContent == "# left over from an earlier life of this directory, longer than either .gitignore pattern\n"

----------------------------------------------------------------------------
\* File contents, as the source spells them: a content is the sequence of the
\* bytes of the file, one character per byte.

\* scaffold.py create_run_bash: the bytes of run.bash. The text has two
\* characters outside ASCII, U+2713 and U+2717, which the file holds as the three
\* bytes of their UTF-8 encoding each (E2 9C 93 and E2 9C 97): here each of these
\* bytes is the character of that code (U+00E2, U+009C, U+0093 or U+0097).
run_bash_content ==
    "#!/bin/bash\n\n# Create bash directory if it doesn't exist\nmkdir -p bash\n\n# Set log file paths\nLOG_FILE=\"bash/pipeline_execution.log\"\nERROR_LOG=\"bash/pipeline_errors.log\"\n\n# Clear previous logs\n> \"$LOG_FILE\"\n> \"$ERROR_LOG\"\n\n# Record start time\necho \"Pipeline execution started at $(date)\" | tee -a \"$LOG_FILE\"\n\n# Define script list\nSCRIPTS=(\n    \"script1.py\"\n    \"script2.py\"\n    \"script3.py\"\n    # Add more scripts here\n)\n\n# Run each script\nfor script in \"${SCRIPTS[@]}\"; do\n    echo -e \"\n=== Running $script ===\" | tee -a \"$LOG_FILE\"\n    \n    # Check if file exists\n    if [ ! -f \"$script\" ]; then\n        echo \"Error: Script $script not found!\" | tee -a \"$ERROR_LOG\"\n        continue\n    fi\n    \n    # Record start time\n    start_time=$(date +%s)\n    start_datetime=$(date)\n    \n    # Run Python script and wait for completion\n    python \"$script\" 2>> \"$ERROR_LOG\" && wait\n    \n    if [ $? -eq 0 ]; then\n        # Calculate execution time\n        end_time=$(date +%s)\n        end_datetime=$(date)\n        duration=$((end_time - start_time))\n        \n        # Convert duration to readable format\n        hours=$((duration / 3600))\n        minutes=$(( (duration % 3600) / 60 ))\n        seconds=$((duration % 60))\n        \n        echo \"â Successfully completed $script\" | tee -a \"$LOG_FILE\"\n        echo \"Started at: $start_datetime\" | tee -a \"$LOG_FILE\"\n        echo \"Finished at: $end_datetime\" | tee -a \"$LOG_FILE\"\n        echo \"Duration: ${hours}h ${minutes}m ${seconds}s\" | tee -a \"$LOG_FILE\"\n    else\n        echo \"â Failed to execute $script\" | tee -a \"$LOG_FILE\"\n        echo \"Check $ERROR_LOG for details\"\n        \n        read -p \"Continue with next script? (y/n) \" -n 1 -r\n        echo\n        if [[ ! $REPLY =~ ^[Yy]$ ]]; then\n            echo \"Pipeline execution stopped by user\" | tee -a \"$LOG_FILE\"\n            exit 1\n        fi\n    fi\ndone\n\necho -e \"\nPipeline execution completed at $(date)\" | tee -a \"$LOG_FILE\"\n"

\* scaffold.py create_helpers: the text of helpers.py.
helpers_content ==
    "import os\nfrom pathlib import Path\n\ndef set_working_directory() -> Path:\n    \"\"\"\n    Set the working directory to the project root.\n    This function should be called at the beginning of each script.\n    \n    Returns:\n        Path: Project root directory path\n    \"\"\"\n    # Get the directory of the current script\n    current_dir = Path(os.path.dirname(os.path.abspath(__file__)))\n    \n    # Set working directory to project root (parent of current script)\n    os.chdir(current_dir)\n    \n    return current_dir\n\ndef setup_paths() -> dict:\n    \"\"\"\n    Create a dictionary of important project paths.\n    \n    Returns:\n        dict: Dictionary containing paths for different project directories\n    \"\"\"\n    root_dir = set_working_directory()\n    \n    paths = {\n        'root': root_dir,\n        'data': root_dir / 'data',\n        'output': root_dir / 'output',\n        'logs': root_dir / 'logs',\n        'bash': root_dir / 'bash'\n    }\n    \n    return paths\n\n# Example usage:\nif __name__ == \"__main__\":\n    # Set working directory\n    project_dir = set_working_directory()\n    print(f\"Working directory set to: {project_dir}\")\n    \n    # Get project paths\n    paths = setup_paths()\n    print(\"Project paths:\")\n    for key, path in paths.items():\n        print(f\"{key}: {path}\")\n"

\* scaffold.py create_license: the MIT text with the year interpolated (f-string).
license_content(current_year) ==
    "MIT License\n\nCopyright (c) "
    \o ToString(current_year)
    \o " Jeremy\n\nPermission is hereby granted, free of charge, to any person obtaining a copy\nof this software and associated documentation files (the \"Software\"), to deal\nin the Software without restriction, including without limitation the rights\nto use, copy, modify, merge, publish, distribute, sublicense, and/or sell\ncopies of the Software, and to permit persons to whom the Software is\nfurnished to do so, subject to the following conditions:\n\nThe above copyright notice and this permission notice shall be included in all\ncopies or substantial portions of the Software.\n\nTHE SOFTWARE IS PROVIDED \"AS IS\", WITHOUT WARRANTY OF ANY KIND, EXPRESS OR\nIMPLIED, INCLUDING BUT NOT LIMITED TO THE WARRANTIES OF MERCHANTABILITY,\nFITNESS FOR A PARTICULAR PURPOSE AND NONINFRINGEMENT. IN NO EVENT SHALL THE\nAUTHORS OR COPYRIGHT HOLDERS BE LIABLE FOR ANY CLAIM, DAMAGES OR OTHER\nLIABILITY, WHETHER IN AN ACTION OF CONTRACT, TORT OR OTHERWISE, ARISING FROM,\nOUT OF OR IN CONNECTION WITH THE SOFTWARE OR THE USE OR OTHER DEALINGS IN THE\nSOFTWARE.\n"

\* scaffold.py create_gitignore: the first .gitignore pattern.
gitignore_content ==
    "# Ignore everything\n*\n\n# But not these files...\n!.gitignore\n!README.md\n!LICENSE\n"

\* scaffold.py create_readme: the README placeholder.
readme_content ==
    "# Project Title"

\* scaffold.py create_project: the second .gitignore pattern, written last.
project_gitignore_content ==
    "# ignore all\n*\n\n# except for these files\n!README.md\n!.gitignore\n!*.py\n!*.bash"

\* scaffold_package.py create_init_file: the text of __init__.py.
init_content(package_name) ==
    "\"\"\"\n"
    \o package_name
    \o " - Python package scaffold\n\"\"\"\n\n__version__ = \"0.1.0\"\n__author__ = \"Jeremy\"\n"

\* scaffold_package.py create_base_file: the text of base.py.
base_content ==
    "from abc import ABC, abstractmethod\n\nclass BaseClass(ABC):\n    \"\"\"Abstract base class template.\"\"\"\n    \n    def __init__(self):\n        \"\"\"Initialize base class.\"\"\"\n        pass\n        \n    @abstractmethod\n    def process(self):\n        \"\"\"Template method to be implemented by subclasses.\"\"\"\n        pass\n"

\* scaffold_package.py create_test_file: the text of tests/test_module1.py.
test_content ==
    "\n"

\* scaffold_package.py create_example_file: the text of examples/basic_usage.py.
example_content ==
    "\n# Add example usage here\n"

\* scaffold_package.py create_pyproject_toml: the manifest.
pyproject_content(package_name) ==
    "[build-system]\nrequires = [\"setuptools>=45\", \"wheel\"]\nbuild-backend = \"setuptools.build_meta\"\n\n[project]\nname = \""
    \o package_name
    \o "\"\nversion = \"0.1.0\"\nrequires-python = \">=3.8\"\n\n[tool.black]\nline-length = 88\ntarget-version = [\"py38\"]\n\n[tool.isort]\nprofile = \"black\"\nmulti_line_output = 3\n"

\* The backquote character (a string cannot hold it without a closing quote
\* after it), and the code fence of the README.
backquote == SubSeq("`'", 1, 1)

fence == backquote \o backquote \o backquote

\* scaffold_package.py create_readme: the package README.
pkg_readme_content(package_name) ==
    "# "
    \o package_name
    \o "\n## Installation\n\n" \o fence \o "bash\npip install -e .\n" \o fence
    \o "\n\n## Usage\n\n" \o fence \o "python\nfrom "
    \o package_name
    \o ".base import BaseClass\n" \o fence \o "\n"

\* scaffold_package.py create_license: the MIT text with the year interpolated.
pkg_license_content(current_year) ==
    "MIT License\n\nCopyright (c) "
    \o ToString(current_year)
    \o " Jeremy\n\nPermission is hereby granted, free of charge, to any person obtaining a copy\nof this software and associated documentation files (the \"Software\"), to deal\nin the Software without restriction, including without limitation the rights\nto use, copy, modify, merge, publish, distribute, sublicense, and/or sell\ncopies of the Software, and to permit persons to whom the Software is\nfurnished to do so, subject to the following conditions:\n\nThe above copyright notice and this permission notice shall be included in all\ncopies or substantial portions of the Software.\n\nTHE SOFTWARE IS PROVIDED \"AS IS\", WITHOUT WARRANTY OF ANY KIND, EXPRESS OR\nIMPLIED, INCLUDING BUT NOT LIMITED TO THE WARRANTIES OF MERCHANTABILITY,\nFITNESS FOR A PARTICULAR PURPOSE AND NONINFRINGEMENT. IN NO EVENT SHALL THE\nAUTHORS OR COPYRIGHT HOLDERS BE LIABLE FOR ANY CLAIM, DAMAGES OR OTHER\nLIABILITY, WHETHER IN AN ACTION OF CONTRACT, TORT OR OTHERWISE, ARISING FROM,\nOUT OF OR IN CONNECTION WITH THE SOFTWARE OR THE USE OR OTHER DEALINGS IN THE\nSOFTWARE.\n"

\* scaffold_package.py create_gitignore: the package .gitignore.
pkg_gitignore_content ==
    "# Ignore everything\n*\n\n# But not these files...\n!.gitignore\n!README.md\n!LICENSE\n"
----------------------------------------------------------------------------
\* The directory tree. A path is the sequence of its components below
\* project_path = base_path / project_name; <<>> is project_path itself.

Root == <<>>

Parent(path) == SubSeq(path, 1, Len(path) - 1)

Prefixes(path) == {SubSeq(path, 1, i) : i \in 0..Len(path)}

Absent == [type |-> "absent", content |-> "", mode |-> 0]

Dir == [type |-> "dir", content |-> "", mode |-> 0]

File(content, mode) == [type |-> "file", content |-> content, mode |-> mode]

\* The mode open(..., "w") and Path.touch() give a file they create: 0o666 under
\* the usual umask 0o022, that is 0o644.
DefaultFileMode == 420

\* The mode both os.chmod calls give run.bash: 0o755.
RunBashModeNotExecutable == 6 * 64 + 4 * 8 + 4
RunBashMode == 493

\* Whether a mode has the owner execute bit (0o100).
OwnerExecutable(mode) == (mode \div 64) % 2 = 1

----------------------------------------------------------------------------
\* File-system calls, as functions of the tree.

\* Path.mkdir(parents=True, exist_ok=True) succeeds unless the path or one of its
\* ancestors is a file (FileExistsError, NotADirectoryError).
CanMkdir(f, path) == \A q \in Prefixes(path) : f[q].type # "file"

\* The directory the next successful os.mkdir of Path.mkdir(parents=True) makes:
\* the topmost missing one of the path and its ancestors.
MissingTop(f, path) ==
    CHOOSE q \in Prefixes(path) :
        /\ f[q].type = "absent"
        /\ \A r \in Prefixes(path) : Len(r) < Len(q) => f[r].type # "absent"

MkdirStep(f, path) == [f EXCEPT ![MissingTop(f, path)] = Dir]

\* The whole of Path.mkdir(parents=True, exist_ok=True) when nothing fails.
MkdirAll(f, path) ==
    [q \in DOMAIN f |-> IF q \in Prefixes(path) /\ f[q].type = "absent" THEN Dir ELSE f[q]]

\* Path.touch(): os.utime on whatever exists (file or directory), else
\* os.open(O_CREAT | O_WRONLY) of an empty file.
CanTouch(f, path) == f[path].type # "absent" \/ f[Parent(path)].type = "dir"

TouchEff(f, path) ==
    IF f[path].type = "absent"
    THEN [f EXCEPT ![path] = File("", DefaultFileMode)]
    ELSE f

\* open(path, flag): the directory must exist and the path must not be a directory.
CanOpen(f, path) == f[Parent(path)].type = "dir" /\ f[path].type # "dir"

\* open(path, "w") creates the file or truncates it, keeping its mode;
\* open(path, "a") creates it or leaves it as it is.
OpenEff(f, path, flag) ==
    IF f[path].type = "absent"
    THEN [f EXCEPT ![path] = File("", DefaultFileMode)]
    ELSE IF flag = "w"
         THEN [f EXCEPT ![path].content = ""]
         ELSE f

\* The write flushed when the with-block closes the file: one write() of the
\* whole text, at offset 0 of a file opened with "w" (bytes of the file beyond
\* the text stay), at the end of a file opened with "a".
WriteEffAtEnd(f, path, content, flag) ==
    [f EXCEPT ![path].content = f[path].content \o content]
WriteEff(f, path, content, flag) ==
    LET old == f[path].content
    IN  IF flag = "w"
        THEN [f EXCEPT ![path].content = content \o SubSeq(old, Len(content) + 1, Len(old))]
        ELSE [f EXCEPT ![path].content = old \o content]

\* os.chmod(path, mode).
CanChmod(f, path) == f[path].type # "absent"

ChmodEff(f, path, mode) == [f EXCEPT ![path].mode = mode]

\* What an exception leaves of the tree: neither generator has a try/except or
\* a finally, so the tree stays as the calls made so far left it.
OnErrorCleanup(f) == [q \in DOMAIN f |-> Absent]
OnError(f) == f

----------------------------------------------------------------------------
\* The generators, as the sequence of calls each function makes.

Ins(op, path, content, flag, mode) ==
    [op |-> op, path |-> path, content |-> content, flag |-> flag, mode |-> mode, step |-> 0]

Mkdir(path) == Ins("mkdir", path, "", "", 0)
Touch(path) == Ins("touch", path, "", "", 0)
Open(path, flag) == Ins("open", path, "", flag, 0)
Write(path, content, flag) == Ins("write", path, content, flag, 0)
Chmod(path, mode) == Ins("chmod", path, "", "", mode)
ReadYear == Ins("now", Root, "", "", 0)

\* with open(path, flag) as f: f.write(content)
WithOpenWrite(path, content, flag) == <<Open(path, flag), Write(path, content, flag)>>

Tag(s, k) == [i \in 1..Len(s) |-> [s[i] EXCEPT !.step = k]]

RECURSIVE FlattenFrom(_, _)
FlattenFrom(steps, k) ==
    IF k > Len(steps) THEN <<>> ELSE Tag(steps[k], k) \o FlattenFrom(steps, k + 1)

\* ---- scaffold.py

create_run_bash ==
    WithOpenWrite(<<"run.bash">>, run_bash_content, "w")
        \o <<Chmod(<<"run.bash">>, RunBashMode)>>

create_helpers_append == WithOpenWrite(<<"helpers.py">>, helpers_content, "a")
create_helpers == WithOpenWrite(<<"helpers.py">>, helpers_content, "w")

create_license(current_year) ==
    <<ReadYear>> \o WithOpenWrite(<<"LICENSE">>, license_content(current_year), "w")

create_gitignore == WithOpenWrite(<<".gitignore">>, gitignore_content, "w")

create_readme_append == WithOpenWrite(<<"README.md">>, readme_content, "a")
create_readme == WithOpenWrite(<<"README.md">>, readme_content, "w")

directories == <<(<<"data">>), (<<"output">>), (<<"logs">>), (<<"bash">>)>>

create_project_steps_no_overwrite(current_year) ==
    [i \in 1..Len(directories) |-> <<Mkdir(directories[i])>>]
        \o << <<Touch(<<"config.py">>)>>,
              create_helpers,
              create_gitignore,
              create_license(current_year),
              create_readme,
              create_run_bash,
              <<Chmod(<<"run.bash">>, RunBashMode)>> >>

\* The steps of create_project, one per statement of its body (one per
\* directory of the loop). current_year is what datetime.now().year returns
\* when create_license asks.
create_project_steps(current_year) ==
    [i \in 1..Len(directories) |-> <<Mkdir(directories[i])>>]
        \o << <<Touch(<<"config.py">>)>>,
              create_helpers,
              create_gitignore,
              create_license(current_year),
              create_readme,
              create_run_bash,
              <<Chmod(<<"run.bash">>, RunBashMode)>>,
              WithOpenWrite(<<".gitignore">>, project_gitignore_content, "w") >>

create_project(project_name, current_year) ==
    FlattenFrom(create_project_steps(current_year), 1)

\* ---- scaffold_package.py

create_init_file(package_name) ==
    WithOpenWrite(<<"src", package_name, "__init__.py">>, init_content(package_name), "w")

create_base_file(package_name) ==
    WithOpenWrite(<<"src", package_name, "base.py">>, base_content, "w")

create_test_file == WithOpenWrite(<<"tests", "test_module1.py">>, test_content, "w")

create_example_file(package_name) ==
    WithOpenWrite(<<"examples", "basic_usage.py">>, example_content, "w")

create_pyproject_toml_unformatted(package_name) ==
    WithOpenWrite(<<"pyproject.toml">>, pyproject_content("{package_name}"), "w")
create_pyproject_toml(package_name) ==
    WithOpenWrite(<<"pyproject.toml">>, pyproject_content(package_name), "w")

pkg_create_readme(package_name) ==
    WithOpenWrite(<<"README.md">>, pkg_readme_content(package_name), "w")

pkg_create_license(current_year) ==
    <<ReadYear>> \o WithOpenWrite(<<"LICENSE">>, pkg_license_content(current_year), "w")

pkg_create_gitignore == WithOpenWrite(<<".gitignore">>, pkg_gitignore_content, "w")

pkg_directories_without_tests(project_name) ==
    <<(<<"src", project_name>>), (<<"examples">>)>>
pkg_directories(project_name) ==
    <<(<<"src", project_name>>), (<<"tests", "test_data">>), (<<"examples">>)>>

create_project_structure_steps_license_first(project_name, current_year) ==
    [i \in 1..Len(pkg_directories(project_name)) |-> <<Mkdir(pkg_directories(project_name)[i])>>]
        \o << create_init_file(project_name),
              create_base_file(project_name),
              create_test_file,
              create_example_file(project_name),
              create_pyproject_toml(project_name),
              pkg_create_license(current_year),
              pkg_create_readme(project_name),
              pkg_create_gitignore >>
create_project_structure_steps(project_name, current_year) ==
    [i \in 1..Len(pkg_directories(project_name)) |-> <<Mkdir(pkg_directories(project_name)[i])>>]
        \o << create_init_file(project_name),
              create_base_file(project_name),
              create_test_file,
              create_example_file(project_name),
              create_pyproject_toml(project_name),
              pkg_create_readme(project_name),
              pkg_create_license(current_year),
              pkg_create_gitignore >>

create_project_structure(project_name, current_year) ==
    FlattenFrom(create_project_structure_steps(project_name, current_year), 1)

\* ---- the generator a command line runs

Program(k, n, y) ==
    IF k = "data" THEN create_project(n, y) ELSE create_project_structure(n, y)

\* Every path a generator names, with its ancestors.
Paths(k, n) ==
    UNION {Prefixes(Program(k, n, 0)[i].path) : i \in 1..Len(Program(k, n, 0))}

\* The arguments of the print statements of main, in order.
main_messages(k, n) ==
    IF k = "data"
    THEN <<"\nProject " \o n \o " created successfully!", "cd " \o n>>
    ELSE <<"\nPackage project " \o n \o " created successfully!",
           "Next steps:",
           "1. cd " \o n,
           "2. pip install -e .">>

\* The bytes the print statements from the from-th on send to standard output:
\* each argument and a newline.
RECURSIVE PrintedText(_, _)
PrintedText(messages, from) ==
    IF from > Len(messages) THEN ""
    ELSE messages[from] \o "\n" \o PrintedText(messages, from + 1)

\* The usage line of the parser, as argparse lays it out for the script name and
\* a line of 80 columns.
format_usage(k) ==
    IF k = "data"
    THEN "usage: scaffold.py [-h] [--path PATH] project_name\n"
    ELSE "usage: scaffold_package.py [-h] [--path PATH] project_name\n"

\* What parser.parse_args() prints for -h or --help: the usage line, the
\* description, and the help of each argument.
format_help(k) ==
    IF k = "data"
    THEN format_usage(k) \o "\nCreate a new project structure\n\npositional arguments:\n  project_name  Name of the project\n\noptions:\n  -h, --help    show this help message and exit\n  --path PATH   Base path for project creation\n"
    ELSE format_usage(k) \o "\nCreate a new Python package project structure\n\npositional arguments:\n  project_name  Name of the project/package\n\noptions:\n  -h, --help    show this help message and exit\n  --path PATH   Base path for project creation\n"

\* A generator run from tree f with nothing failing and nothing else running:
\* the calls from the from-th on, in order.
RECURSIVE RunFrom(_, _, _)
RunFrom(prog, from, f) ==
    IF from > Len(prog) THEN f
    ELSE LET i == prog[from]
             g == CASE i.op = "mkdir" -> MkdirAll(f, i.path)
                    [] i.op = "touch" -> TouchEff(f, i.path)
                    [] i.op = "open"  -> OpenEff(f, i.path, i.flag)
                    [] i.op = "write" -> WriteEff(f, i.path, i.content, i.flag)
                    [] i.op = "chmod" -> ChmodEff(f, i.path, i.mode)
                    [] OTHER -> f
         IN  RunFrom(prog, from + 1, g)

----------------------------------------------------------------------------
\* Initial states: a command line (kind, name, argv) and a directory tree.

\* An entry that may exist before the first run: a directory, or a file with some
\* earlier content and a non-executable mode.
PreEntries == {Dir, File(OldContent, DefaultFileMode)}

\* The paths a generator writes a file at.
FilePaths(k, n) ==
    {Program(k, n, 0)[i].path :
        i \in {i \in 1..Len(Program(k, n, 0)) : Program(k, n, 0)[i].op \in {"open", "touch"}}}

\* A project directory in use: every directory the generator names exists, and
\* every file it names exists with some earlier content and a non-executable mode.
Populated(k, n) ==
    [q \in Paths(k, n) |-> IF q \in FilePaths(k, n) THEN File(OldContent, DefaultFileMode) ELSE Dir]

\* The trees the first run may start from: project_path absent, project_path a
\* file, a project directory in use, or project_path a directory holding at most
\* max of the paths the generator names, each below a directory.
InitialTrees(k, n, max) ==
    LET P == Paths(k, n)
        Below == P \ {Root}
    IN  {[q \in P |-> Absent],
         [q \in P |-> IF q = Root THEN File(OldContent, DefaultFileMode) ELSE Absent],
         Populated(k, n)}
        \cup
        UNION { { [q \in P |-> IF q = Root THEN Dir ELSE IF q \in S THEN e[q] ELSE Absent] :
                    e \in {e \in [S -> PreEntries] :
                              \A q \in S : Parent(q) = Root \/ (Parent(q) \in S /\ e[Parent(q)] = Dir)} } :
                S \in {S \in SUBSET Below : Cardinality(S) <= max} }

\* How a command line is written: the project name (with or without --path), -h
\* or --help somewhere in it, or something the parser rejects (no project name,
\* an option it does not know).
Invocations == {"name", "help", "invalid"}

InitWith(trees) ==
    /\ argv \in Invocations
    /\ fs0 \in trees
    /\ fs = fs0
    /\ now = 2026
    /\ status = [p \in Procs |-> "idle"]
    /\ pc = [p \in Procs |-> 1]
    /\ yr = [p \in Procs |-> 0]
    /\ log = [p \in Procs |-> <<>>]
    /\ snap = [p \in Procs |-> fs0]
    /\ printed = [p \in Procs |-> 0]
    /\ out = [p \in Procs |-> ""]
    /\ exit = [p \in Procs |-> -1]

\* The command lines tried. The data-project generator uses the name only for
\* the directory it works in and in the messages of main, so one name is tried;
\* the package generator writes it into files, so every name is.
CommandLines == {<<"data", "demo">>} \cup {<<"package", n>> : n \in Names}

Init ==
    /\ \E c \in CommandLines : kind = c[1] /\ name = c[2]
    /\ InitWith(InitialTrees(kind, name, MaxPre))

\* Two runs of the data-project generator on the same command line.
InitConc ==
    /\ kind = "data"
    /\ name = "demo"
    /\ InitWith(InitialTrees(kind, name, MaxPreConc))

----------------------------------------------------------------------------
\* Actions.

\* The generators of every command line and year of the model, computed once.
Programs == [k \in Kinds, n \in Names, y \in {0} \cup Years |-> Program(k, n, y)]

Prog(p) == Programs[kind, name, yr[p]]

Running(p) == status[p] = "running" /\ pc[p] <= Len(Prog(p))

Cur(p) == Prog(p)[pc[p]]

\* Run p has made its current call, leaving tree g: it moves to the next call.
Advance(p, g) ==
    /\ fs' = g
    /\ pc' = [pc EXCEPT ![p] = pc[p] + 1]

\* main, up to the call of the generator. parser.parse_args() returns and the
\* generator starts; or it prints the help text and exits with code 0 (the text
\* goes to standard error when the process has no standard output); or it prints
\* the usage line and the error to standard error and exits with code 2 (a
\* process without standard error prints the usage line to standard output, if
\* it has one, and the error nowhere). In the last two cases the generator is
\* never called.
main_start(p) ==
    /\ status[p] = "idle"
    /\ \/ /\ argv = "name"
          /\ status' = [status EXCEPT ![p] = "running"]
          /\ UNCHANGED <<out, exit>>
       \/ /\ argv = "help"
          /\ status' = [status EXCEPT ![p] = "usage"]
          /\ exit' = [exit EXCEPT ![p] = 0]
          /\ \/ out' = [out EXCEPT ![p] = format_help(kind)]
             \/ out' = out
       \/ /\ argv = "invalid"
          /\ status' = [status EXCEPT ![p] = "usage"]
          /\ exit' = [exit EXCEPT ![p] = 2]
          /\ \/ out' = out
             \/ out' = [out EXCEPT ![p] = format_usage(kind)]
    /\ UNCHANGED <<kind, name, argv, printed, fs, now, pc, yr, log>>

\* The help text does not reach standard output whole: argparse ignores the
\* OSError of a write that fails, and the exit code stays 0; when it is the flush
\* of a block-buffered standard output at exit that fails, the exit code is 120.
HelpLost(p) ==
    /\ status[p] = "idle"
    /\ argv = "help"
    /\ status' = [status EXCEPT ![p] = "usage"]
    /\ \E n \in 0..(Len(format_help(kind)) - 1) :
          out' = [out EXCEPT ![p] = SubSeq(format_help(kind), 1, n)]
    /\ \E c \in {0, 120} : exit' = [exit EXCEPT ![p] = c]
    /\ UNCHANGED <<kind, name, argv, printed, fs, now, pc, yr, log>>

\* One os.mkdir of Path.mkdir(parents=True, exist_ok=True); the call returns
\* once the directory exists.
DoMkdir(p) ==
    /\ Running(p) /\ Cur(p).op = "mkdir"
    /\ CanMkdir(fs, Cur(p).path)
    /\ IF fs[Cur(p).path].type = "dir"
       THEN Advance(p, fs)
       ELSE LET g == MkdirStep(fs, Cur(p).path)
            IN  IF g[Cur(p).path].type = "dir"
                THEN Advance(p, g)
                ELSE fs' = g /\ UNCHANGED pc
    /\ UNCHANGED <<kind, name, argv, printed, now, status, yr, log, out, exit>>

\* (project_path / "config.py").touch()
DoTouch(p) ==
    /\ Running(p) /\ Cur(p).op = "touch"
    /\ CanTouch(fs, Cur(p).path)
    /\ Advance(p, TouchEff(fs, Cur(p).path))
    /\ log' = [log EXCEPT ![p] = Append(log[p], Cur(p).path)]
    /\ UNCHANGED <<kind, name, argv, printed, now, status, yr, out, exit>>

\* current_year = datetime.now().year: the clock gives the year it gave the last
\* time or a later one.
DoReadYear(p) ==
    /\ Running(p) /\ Cur(p).op = "now"
    /\ \E y \in Years :
          /\ y >= now
          /\ now' = y
          /\ yr' = [yr EXCEPT ![p] = y]
    /\ pc' = [pc EXCEPT ![p] = pc[p] + 1]
    /\ UNCHANGED <<kind, name, argv, printed, fs, status, log, out, exit>>

\* open(path, "w")
DoOpen(p) ==
    /\ Running(p) /\ Cur(p).op = "open"
    /\ CanOpen(fs, Cur(p).path)
    /\ Advance(p, OpenEff(fs, Cur(p).path, Cur(p).flag))
    /\ UNCHANGED <<kind, name, argv, printed, now, status, yr, log, out, exit>>

\* f.write(content), flushed when the with-block closes the file
DoWrite(p) ==
    /\ Running(p) /\ Cur(p).op = "write"
    /\ Advance(p, WriteEff(fs, Cur(p).path, Cur(p).content, Cur(p).flag))
    /\ log' = [log EXCEPT ![p] = Append(log[p], Cur(p).path)]
    /\ UNCHANGED <<kind, name, argv, printed, now, status, yr, out, exit>>

\* os.chmod(path, 0o755)
DoChmod(p) ==
    /\ Running(p) /\ Cur(p).op = "chmod"
    /\ CanChmod(fs, Cur(p).path)
    /\ Advance(p, ChmodEff(fs, Cur(p).path, Cur(p).mode))
    /\ UNCHANGED <<kind, name, argv, printed, now, status, yr, log, out, exit>>

\* The usage line and the error of a rejected command line do not get where they
\* go: argparse ignores the OSError of a write that fails, and the exit code
\* stays 2; when the flush of standard error or of a block-buffered standard
\* output at exit fails, the exit code is 120. Of a usage line that went to
\* standard output, fewer bytes than it has have reached it.
UsageLost(p) ==
    /\ status[p] = "idle"
    /\ argv = "invalid"
    /\ status' = [status EXCEPT ![p] = "usage"]
    /\ \E n \in 0..(Len(format_usage(kind)) - 1) :
          out' = [out EXCEPT ![p] = SubSeq(format_usage(kind), 1, n)]
    /\ \E c \in {2, 120} : exit' = [exit EXCEPT ![p] = c]
    /\ UNCHANGED <<kind, name, argv, printed, fs, now, pc, yr, log>>

\* The exit code of a process that an uncaught exception ends: 1, or 120 when
\* the interpreter cannot flush a stream at exit (standard error holding the
\* traceback it could not write, standard output holding what was printed).
ExitCodesOfException == {1, 120}

\* How many bytes of its text a call that raises has written: a write that
\* raises (disk full, file size limit) has written fewer bytes than the text has,
\* from none to all but one; any other call that raises has done nothing.
WrittenBeforeRaise(i) == IF i.op = "write" THEN 0..(Len(i.content) - 1) ELSE {0}

\* A file-system call raises OSError (a path collision, permission denied, disk
\* full, file too large): nothing catches it, the interpreter prints the
\* traceback to standard error and the process exits with code 1, or with code
\* 120 when standard error cannot be flushed. The bytes a raising write has
\* written stay in the file.
Raise(p) ==
    /\ Running(p) /\ Cur(p).op # "now"
    /\ status' = [status EXCEPT ![p] = "failed"]
    /\ \E c \in ExitCodesOfException : exit' = [exit EXCEPT ![p] = c]
    /\ \E n \in WrittenBeforeRaise(Cur(p)) :
          fs' = OnError(IF Cur(p).op = "write"
                        THEN WriteEff(fs, Cur(p).path, SubSeq(Cur(p).content, 1, n), Cur(p).flag)
                        ELSE fs)
    /\ UNCHANGED <<kind, name, argv, printed, now, pc, yr, log, out>>

\* The generator of run p has returned to main.
Returned(p) == status[p] = "running" /\ pc[p] > Len(Prog(p))

Messages == [k \in Kinds, n \in Names |-> main_messages(k, n)]

\* Everything main prints.
Confirmation == [k \in Kinds, n \in Names |-> PrintedText(main_messages(k, n), 1)]

\* Standard output is either written through by each print (an unbuffered
\* stream, or a terminal, whose line-buffered stream is flushed by the newline of
\* each print) or block-buffered (a file, a pipe): then nothing reaches it
\* before the interpreter flushes the stream at exit. Which one it is shows at the
\* first print. A process started without standard output (sys.stdout is None)
\* looks like the second until it exits: its prints do nothing.
WrittenThrough(p) == printed[p] = 0 \/ out[p] # ""

Buffered(p) == out[p] = ""

\* The next print statement of main is executed: its line reaches standard output
\* at once, or it stays in the buffer of the stream.
PrintNext(p) ==
    /\ printed[p] < Len(Messages[kind, name])
    /\ printed' = [printed EXCEPT ![p] = printed[p] + 1]
    /\ \/ /\ WrittenThrough(p)
          /\ out' = [out EXCEPT ![p] = out[p] \o Messages[kind, name][printed[p] + 1] \o "\n"]
       \/ /\ Buffered(p)
          /\ out' = out
    /\ UNCHANGED <<kind, name, argv, fs, now, status, pc, yr, log, exit>>

\* main, after the generator: print(...)
main_print_early(p) == status[p] = "running" /\ PrintNext(p)
main_print(p) == Returned(p) /\ PrintNext(p)

\* A print to a written-through standard output raises OSError (no space left,
\* broken pipe, file too large, a terminal that went away) after fewer bytes than
\* its line has reached standard output: nothing catches it and the process
\* exits, the generator having completed. The exit code is 1, or 120 when the
\* interpreter cannot flush at exit what a line-buffered standard output kept of
\* the line, or standard error.
PrintRaise(p) ==
    /\ Returned(p)
    /\ printed[p] < Len(Messages[kind, name])
    /\ WrittenThrough(p)
    /\ \E n \in 0..Len(Messages[kind, name][printed[p] + 1]) :
          out' = [out EXCEPT ![p] = out[p] \o SubSeq(Messages[kind, name][printed[p] + 1] \o "\n", 1, n)]
    /\ status' = [status EXCEPT ![p] = "failed"]
    /\ \E c \in ExitCodesOfException : exit' = [exit EXCEPT ![p] = c]
    /\ UNCHANGED <<kind, name, argv, printed, fs, now, pc, yr, log>>

\* main has returned and the interpreter exits with code 0. What was written
\* through stays as it is; what a block-buffered standard output still holds is
\* flushed; a process without standard output has printed nothing.
main_exit(p) ==
    /\ Returned(p)
    /\ printed[p] = Len(Messages[kind, name])
    /\ \/ /\ ~Buffered(p)
          /\ out' = out
       \/ /\ Buffered(p)
          /\ out' = [out EXCEPT ![p] = Confirmation[kind, name]]
       \/ /\ Buffered(p)
          /\ out' = out
    /\ status' = [status EXCEPT ![p] = "done"]
    /\ exit' = [exit EXCEPT ![p] = 0]
    /\ UNCHANGED <<kind, name, argv, printed, fs, now, pc, yr, log>>

\* The flush of a block-buffered standard output at exit fails after fewer bytes
\* than were printed have reached it: the interpreter reports the exception it
\* ignores and exits with code 120.
FlushRaise(p) ==
    /\ Returned(p)
    /\ printed[p] = Len(Messages[kind, name])
    /\ Buffered(p)
    /\ \E n \in 0..(Len(Confirmation[kind, name]) - 1) :
          out' = [out EXCEPT ![p] = SubSeq(Confirmation[kind, name], 1, n)]
    /\ status' = [status EXCEPT ![p] = "failed"]
    /\ exit' = [exit EXCEPT ![p] = 120]
    /\ UNCHANGED <<kind, name, argv, printed, fs, now, pc, yr, log>>

\* Whether the tree lets the next call of run p succeed.
CanDo(p) ==
    CASE Cur(p).op = "mkdir" -> CanMkdir(fs, Cur(p).path)
      [] Cur(p).op = "touch" -> CanTouch(fs, Cur(p).path)
      [] Cur(p).op = "open"  -> CanOpen(fs, Cur(p).path)
      [] Cur(p).op = "chmod" -> CanChmod(fs, Cur(p).path)
      [] OTHER -> TRUE

\* A call raises because the tree does not let it succeed (a file where a
\* directory is needed, a directory where a file is to be opened), and standard
\* error takes the traceback.
RaiseByTree(p) == Running(p) /\ ~CanDo(p) /\ Raise(p) /\ exit'[p] = 1

\* The history variables of runs in a row. snap: when run p starts, and whenever
\* its next call belongs to a later step than the call it has just made (or it
\* has made its last call), the tree is recorded. fs0: when a run starts, the tree
\* is recorded as the tree before that run.
Starts(p) == status[p] = "idle" /\ status'[p] = "running"

StepEnds(p) ==
    /\ pc'[p] # pc[p]
    /\ pc'[p] > Len(Prog(p)) \/ Prog(p)[pc'[p]].step # Cur(p).step

Snapshot ==
    /\ snap' = [p \in Procs |-> IF Starts(p) \/ StepEnds(p) THEN fs' ELSE snap[p]]
    /\ fs0' = IF \E p \in Procs : Starts(p) THEN fs ELSE fs0

\* The history variables of concurrent runs: fs0 stays the tree before both, and
\* snap is not kept.
NoSnapshot == UNCHANGED <<fs0, snap>>

\* Twice in a row: run 2 is started once run 1 has generated the project and
\* ended successfully. Any file-system call may raise, and standard output may
\* fail.
Next ==
    \/ \E p \in Procs : (\A q \in Procs : q < p => status[q] = "done") /\ main_start(p) /\ Snapshot
    \/ \E p \in Procs : (\A q \in Procs : q < p => status[q] = "done") /\ HelpLost(p) /\ Snapshot
    \/ \E p \in Procs : (\A q \in Procs : q < p => status[q] = "done") /\ UsageLost(p) /\ Snapshot
    \/ \E p \in Procs : DoMkdir(p) /\ Snapshot
    \/ \E p \in Procs : DoTouch(p) /\ Snapshot
    \/ \E p \in Procs : DoReadYear(p) /\ Snapshot
    \/ \E p \in Procs : DoOpen(p) /\ Snapshot
    \/ \E p \in Procs : DoWrite(p) /\ Snapshot
    \/ \E p \in Procs : DoChmod(p) /\ Snapshot
    \/ \E p \in Procs : Raise(p) /\ Snapshot
    \/ \E p \in Procs : main_print(p) /\ Snapshot
    \/ \E p \in Procs : PrintRaise(p) /\ Snapshot
    \/ \E p \in Procs : main_exit(p) /\ Snapshot
    \/ \E p \in Procs : FlushRaise(p) /\ Snapshot

Spec == Init /\ [][Next]_vars

\* Concurrently: both runs of one data-project command line start whenever they
\* like and their calls interleave. Nothing fails from outside: a call raises
\* only when the tree does not let it succeed, and standard output, when the
\* process has one, takes what is printed.
NextConc ==
    \/ \E p \in Procs : main_start(p) /\ NoSnapshot
    \/ \E p \in Procs : DoMkdir(p) /\ NoSnapshot
    \/ \E p \in Procs : DoTouch(p) /\ NoSnapshot
    \/ \E p \in Procs : DoReadYear(p) /\ NoSnapshot
    \/ \E p \in Procs : DoOpen(p) /\ NoSnapshot
    \/ \E p \in Procs : DoWrite(p) /\ NoSnapshot
    \/ \E p \in Procs : DoChmod(p) /\ NoSnapshot
    \/ \E p \in Procs : RaiseByTree(p) /\ NoSnapshot
    \/ \E p \in Procs : main_print(p) /\ NoSnapshot
    \/ \E p \in Procs : main_exit(p) /\ NoSnapshot

SpecConc == InitConc /\ [][NextConc]_vars

----------------------------------------------------------------------------
\* Properties.

IsPrefix(s, t) == Len(s) <= Len(t) /\ SubSeq(t, 1, Len(s)) = s

\* Whether text holds part somewhere.
Contains(text, part) ==
    \E i \in 1..(Len(text) - Len(part) + 1) : SubSeq(text, i, i + Len(part) - 1) = part

IsFileWith(f, path, content) == f[path].type = "file" /\ f[path].content = content

\* For each command line and each call of its generator, how many calls before
\* it wrote a file (the calls do not depend on the year).
WritesBeforeCall ==
    [k \in Kinds, n \in Names |->
        [j \in 1..Len(Programs[k, n, 0]) |->
            Cardinality({i \in 1..(j - 1) : Programs[k, n, 0][i].op \in {"write", "touch"}})]]

\* How many calls of run p wrote a file and came before its next call.
WritesBefore(p) == WritesBeforeCall[kind, name][pc[p]]

\* The generator of run p has made all its calls (main may still be printing, or
\* have failed to).
Completed(p) == status[p] # "idle" /\ pc[p] > Len(Prog(p))

\* A call of the generator of run p has raised.
GenerationFailed(p) == status[p] = "failed" /\ pc[p] <= Len(Prog(p))

\* The generator of run p has completed and no later run has started: fs is the
\* tree run p left.
JustCompleted(p) == Completed(p) /\ \A q \in Procs : q > p => status[q] = "idle"

\* C1: when the data-project generator has run twice in a row with the same
\* arguments and create_license read the same year both times, the tree after
\* the second run is the tree the first run left: the same directories, the same
\* files, the same contents and the same modes.
C1_SecondRunLeavesSameTree ==
    (kind = "data" /\ status[2] = "done" /\ yr[1] = yr[2]) => fs = snap[1]

\* C1 witness: both runs are over, in the same year; the second one started from
\* the tree the first one left, which holds the config.py that was there before
\* the first run.
C1_Witness ==
    /\ kind = "data" /\ status[2] = "done" /\ yr[1] = yr[2]
    /\ fs0 = snap[1]
    /\ IsFileWith(fs0, <<"config.py">>, OldContent)
    /\ IsFileWith(fs0, <<".gitignore">>, project_gitignore_content)

\* C2: once the data-project generator has completed, .gitignore holds the
\* second, broader pattern and not the pattern create_gitignore wrote, whatever
\* it held before.
C2_GitignoreIsBroadPattern ==
    \A p \in Procs :
        (kind = "data" /\ JustCompleted(p)) =>
            /\ IsFileWith(fs, <<".gitignore">>,
                   "# ignore all\n*\n\n# except for these files\n!README.md\n!.gitignore\n!*.py\n!*.bash")
            /\ ~Contains(fs[<<".gitignore">>].content, "!LICENSE")

\* C2 witness: the first run is over and .gitignore existed before it with
\* another content.
C2_Witness ==
    /\ kind = "data" /\ JustCompleted(1)
    /\ IsFileWith(fs0, <<".gitignore">>, OldContent)

\* The calls that start the write of a file: open, and touch for config.py.
StartsWrite(p) == Running(p) /\ Cur(p).op \in {"open", "touch"}

\* The subdirectories the generator lists (directories in both sources).
ListedDirectories ==
    IF kind = "data"
    THEN {directories[i] : i \in 1..Len(directories)}
    ELSE {pkg_directories(name)[i] : i \in 1..Len(pkg_directories(name))}

\* C3, as claimed: whenever a generator is about to write a file below a
\* subdirectory, that subdirectory is one of the listed subdirectories and exists.
C3_DirectoryListedAndCreated ==
    \A p \in Procs :
        (StartsWrite(p) /\ Parent(Cur(p).path) # Root) =>
            /\ Parent(Cur(p).path) \in ListedDirectories
            /\ fs[Parent(Cur(p).path)].type = "dir"

\* C3, amended: whenever a generator is about to write a file, the directory
\* that holds the file exists, and it is project_path, a listed subdirectory or
\* an ancestor of a listed subdirectory (made by mkdir(parents=True)).
C3_DirectoryCreatedBeforeWrite ==
    \A p \in Procs :
        StartsWrite(p) =>
            /\ fs[Parent(Cur(p).path)].type = "dir"
            /\ Parent(Cur(p).path) \in UNION {Prefixes(d) : d \in ListedDirectories}

\* C3 witness: the package generator is about to open tests/test_module1.py in
\* a project directory that did not exist before the run.
C3_Witness ==
    /\ kind = "package" /\ StartsWrite(1)
    /\ Cur(1).path = <<"tests", "test_module1.py">>
    /\ fs0[Root].type = "absent"
    /\ fs[<<"tests">>].type = "dir"

\* The text the data-project generator defines for each file but config.py.
GeneratedFilesHold(f, y) ==
    /\ IsFileWith(f, <<"helpers.py">>, helpers_content)
    /\ IsFileWith(f, <<"LICENSE">>, license_content(y))
    /\ IsFileWith(f, <<"README.md">>, "# Project Title")
    /\ IsFileWith(f, <<"run.bash">>, run_bash_content)
    /\ IsFileWith(f, <<".gitignore">>, project_gitignore_content)

\* C4, as claimed: after the data-project generator has completed, every file
\* it generates holds the text the generator defines, whatever it held before;
\* config.py is empty.
C4_EveryFileOverwritten ==
    \A p \in Procs :
        (kind = "data" /\ JustCompleted(p)) =>
            /\ GeneratedFilesHold(fs, yr[p])
            /\ IsFileWith(fs, <<"config.py">>, "")

\* C4, amended: after the data-project generator has completed, every file it
\* generates but config.py holds the text the generator defines, whatever it
\* held before. config.py is only touched: it is an empty file when it did not
\* exist before the run, and otherwise it is what it was before the run.
C4_EveryFileButConfigOverwritten ==
    /\ \A p \in Procs :
          (kind = "data" /\ JustCompleted(p)) => GeneratedFilesHold(fs, yr[p])
    /\ \A p \in Procs :
          (kind = "data" /\ JustCompleted(p)) =>
              fs[<<"config.py">>] =
                  IF fs0[<<"config.py">>].type = "absent"
                  THEN File("", DefaultFileMode)
                  ELSE fs0[<<"config.py">>]

\* C4 witness: the first run is over; config.py and README.md existed before it
\* with another content.
C4_Witness ==
    /\ kind = "data" /\ JustCompleted(1)
    /\ IsFileWith(fs0, <<"config.py">>, OldContent)
    /\ IsFileWith(fs0, <<"README.md">>, OldContent)

\* The order of the file writes the claim lists.
FixedOrder ==
    IF kind = "data"
    THEN <<(<<"config.py">>), (<<"helpers.py">>), (<<".gitignore">>), (<<"LICENSE">>),
           (<<"README.md">>), (<<"run.bash">>), (<<".gitignore">>)>>
    ELSE <<(<<"src", name, "__init__.py">>), (<<"src", name, "base.py">>),
           (<<"tests", "test_module1.py">>), (<<"examples", "basic_usage.py">>),
           (<<"pyproject.toml">>), (<<"README.md">>), (<<"LICENSE">>), (<<".gitignore">>)>>

\* C5: the files a run has written so far are, in order, the first items of the
\* fixed list of its generator; a completed run has written the whole list.
C5_WritesInFixedOrder ==
    \A p \in Procs :
        /\ IsPrefix(log[p], FixedOrder)
        /\ Completed(p) => log[p] = FixedOrder

\* C5 witness: the first package run has written its whole list and the second
\* one its first three files.
C5_Witness ==
    /\ kind = "package" /\ status[1] = "done" /\ status[2] = "running"
    /\ Len(log[1]) = Len(FixedOrder)
    /\ Len(log[2]) = 3

\* For each command line and each call of its generator, the paths the step of
\* the call names, with their ancestors.
PathsOfStep ==
    [k \in Kinds, n \in Names |->
        [j \in 1..Len(Programs[k, n, 0]) |->
            UNION {Prefixes(Programs[k, n, 0][i].path) :
                      i \in {i \in 1..Len(Programs[k, n, 0]) :
                                Programs[k, n, 0][i].step = Programs[k, n, 0][j].step}}]]

\* The paths the step of the next call of run p names, with their ancestors.
StepPaths(p) == PathsOfStep[kind, name][pc[p]]

\* C6, as claimed: when a run has failed, the tree is the tree the steps before
\* the failing step left.
C6_FailureLeavesTreeOfEarlierSteps ==
    \A p \in Procs : GenerationFailed(p) => fs = snap[p]

\* C6, amended: when a call of step k has failed, no later call of the run has
\* been made and nothing has been rolled back or cleaned up: the files written
\* are those of the calls before the failing one, and every path but those the
\* failing step itself names is as steps 1..k-1 left it. (The paths step k names
\* are as the calls of step k made before the failure left them: a directory
\* made for a parent, a file created or truncated by open and not yet written or
\* written in part, run.bash written and not yet chmod-ed.) A file whose write
\* failed holds the first bytes of its text, fewer than the text has.
C6_FailureKeepsEarlierSteps ==
    \A p \in Procs :
        GenerationFailed(p) =>
            /\ Len(log[p]) = WritesBefore(p)
            /\ \A q \in DOMAIN fs : q \notin StepPaths(p) => fs[q] = snap[p][q]
            /\ \A q \in DOMAIN fs : snap[p][q].type # "absent" => fs[q].type = snap[p][q].type
            /\ Cur(p).op = "write" =>
                  /\ IsPrefix(fs[Cur(p).path].content, Cur(p).content)
                  /\ fs[Cur(p).path].content # Cur(p).content

\* C6 witness: the write of the final .gitignore overwrite failed after its
\* open had truncated the file the earlier step wrote, and after 30 of its 77
\* bytes were written.
C6_Witness ==
    /\ kind = "data" /\ status[1] = "failed"
    /\ Cur(1).op = "write" /\ Cur(1).content = project_gitignore_content
    /\ IsFileWith(fs, <<".gitignore">>, "# ignore all\n*\n\n# except for t")
    /\ IsFileWith(snap[1], <<".gitignore">>, gitignore_content)
    /\ IsFileWith(fs, <<"helpers.py">>, helpers_content)

\* C7: right after the data-project generator has completed, run.bash is a file
\* of mode 0o755 (493), owner execute bit set, also when it existed before with
\* a non-executable mode.
C7_RunBashExecutable ==
    \A p \in Procs :
        (kind = "data" /\ JustCompleted(p)) =>
            /\ fs[<<"run.bash">>].type = "file"
            /\ fs[<<"run.bash">>].mode = 493
            /\ OwnerExecutable(fs[<<"run.bash">>].mode)

\* C7 witness: the first run is over and run.bash existed before it with mode
\* 0o644.
C7_Witness ==
    /\ kind = "data" /\ JustCompleted(1)
    /\ fs0[<<"run.bash">>] = File(OldContent, 420)
    /\ ~OwnerExecutable(fs0[<<"run.bash">>].mode)

\* C8 (as the code has it): for both entry points, a print statement of main is
\* executed, and a byte of the confirmation reaches standard output, only when
\* every call of the generator has been made and none has raised; a run in which
\* a call of the generator raised ends with a non-zero exit code and has printed
\* nothing. The exit code is 0 in two cases only: the generator completed and
\* every print statement was executed (the whole confirmation is on standard
\* output, or nothing is, the process having none), or parse_args ended the
\* process for -h or --help, without any call of the generator and with nothing
\* but the help text on standard output. A command line the parser rejects ends
\* with a non-zero exit code (2, or 120 when a stream cannot be flushed at exit),
\* no call of the generator and nothing but the usage line on standard output.
\* (A non-zero exit code does not tell that the generation failed: a print or the
\* flush at exit may fail after it.)
C8_ConfirmationOnlyAfterGeneration ==
    \A p \in Procs :
        /\ (printed[p] > 0 \/ (out[p] # "" /\ status[p] # "usage")) =>
              /\ pc[p] = Len(Prog(p)) + 1
              /\ log[p] = FixedOrder
        /\ status[p] # "usage" => IsPrefix(out[p], Confirmation[kind, name])
        /\ exit[p] = 0 =>
              \/ /\ status[p] = "done"
                 /\ pc[p] = Len(Prog(p)) + 1
                 /\ log[p] = FixedOrder
                 /\ printed[p] = Len(main_messages(kind, name))
                 /\ out[p] \in {Confirmation[kind, name], ""}
              \/ /\ status[p] = "usage"
                 /\ argv = "help"
                 /\ IsPrefix(out[p], format_help(kind))
        /\ status[p] = "done" => exit[p] = 0
        /\ status[p] = "usage" =>
              /\ pc[p] = 1 /\ log[p] = <<>> /\ printed[p] = 0
              /\ ~Contains(out[p], "created successfully")
              /\ argv = "help" =>
                    /\ exit[p] \in {0, 120}
                    /\ IsPrefix(out[p], format_help(kind))
                    /\ exit[p] = 120 => out[p] # format_help(kind)
              /\ argv = "invalid" =>
                    /\ exit[p] \in {2, 120}
                    /\ IsPrefix(out[p], format_usage(kind))
                    /\ exit[p] = 120 => out[p] # format_usage(kind)
        /\ GenerationFailed(p) => (exit[p] > 0 /\ out[p] = "" /\ printed[p] = 0)

\* C8 witness: the first run printed its confirmation and exited with code 0; a
\* call of the generator of the second run raised.
C8_Witness ==
    /\ status[1] = "done" /\ exit[1] = 0
    /\ out[1] = Confirmation[kind, name] /\ printed[1] >= 2
    /\ GenerationFailed(2) /\ exit[2] = 1 /\ out[2] = ""

\* C8 as stated: a byte of the confirmation reaches standard output, or the exit
\* code is 0, only when every call of the generator has been made and none has
\* raised; a run in which a call of the generator raised ends with a non-zero
\* exit code and has printed nothing. A run with -h exits with code 0 and has
\* called no generator.
C8_ExitZeroOnlyAfterGeneration ==
    \A p \in Procs :
        /\ ((out[p] # "" /\ status[p] # "usage") \/ exit[p] = 0) =>
              /\ pc[p] = Len(Prog(p)) + 1
              /\ log[p] = FixedOrder
        /\ GenerationFailed(p) => (exit[p] > 0 /\ out[p] = "" /\ printed[p] = 0)

\* A run with -h: the help text is on standard output, the exit code is 0, no
\* call of the generator has been made and the tree is as it was.
HelpExitsZero ==
    /\ status[1] = "usage" /\ exit[1] = 0
    /\ out[1] = format_help(kind)
    /\ pc[1] = 1 /\ fs = fs0

\* A run on a command line the parser rejects: exit code 2, the tree as it was.
UsageErrorExitsTwo ==
    /\ status[1] = "usage" /\ exit[1] = 2 /\ out[1] = ""
    /\ pc[1] = 1 /\ fs = fs0

\* The same of a process without standard error: the usage line is on standard
\* output.
UsageErrorOnStandardOutput ==
    /\ status[1] = "usage" /\ exit[1] = 2 /\ out[1] = format_usage(kind)
    /\ pc[1] = 1 /\ fs = fs0

\* A run whose generator completed and whose first print raised on a terminal
\* that had gone away: nothing is printed and the exit code is 120.
PrintFailsAndFlushFails ==
    /\ status[1] = "failed" /\ exit[1] = 120
    /\ Completed(1) /\ printed[1] = 0 /\ out[1] = ""

\* A run in which a call of the generator raised and standard error could not be
\* flushed: exit code 120.
GenerationFailsAndFlushFails ==
    /\ GenerationFailed(1) /\ exit[1] = 120 /\ pc[1] = 1
    /\ fs0[<<>>].type = "file" /\ fs = fs0

\* A run of a process without standard output: the project is generated and the
\* exit code is 0, with nothing printed.
ExitZeroWithoutStandardOutput ==
    /\ status[1] = "done" /\ exit[1] = 0 /\ out[1] = ""
    /\ Completed(1) /\ printed[1] = Len(main_messages(kind, name))

\* A run whose generator completed and whose second print raised: the tree is
\* complete, the first line is on standard output, the exit code is 1.
PrintFailsAfterGeneration ==
    /\ kind = "data" /\ status[1] = "failed" /\ exit[1] = 1
    /\ Completed(1) /\ printed[1] = 1
    /\ out[1] = "\nProject " \o name \o " created successfully!\n"
    /\ GeneratedFilesHold(fs, yr[1])

\* A run whose generator completed and whose standard output could not be
\* flushed at exit: exit code 120.
FlushFailsAtExit ==
    /\ status[1] = "failed" /\ exit[1] = 120
    /\ Completed(1) /\ printed[1] = Len(main_messages(kind, name))
    /\ out[1] = ""

\* C9: after the package generator has completed, src/<name>/__init__.py holds
\* the line __version__ = "0.1.0" and the author line, and pyproject.toml holds
\* name = "<name>" with the name of the directory src/<name>, and version 0.1.0.
C9_VersionAuthorAndName ==
    \A p \in Procs :
        (kind = "package" /\ JustCompleted(p)) =>
            /\ fs[<<"src", name>>].type = "dir"
            /\ fs[<<"src", name, "__init__.py">>].type = "file"
            /\ Contains(fs[<<"src", name, "__init__.py">>].content, "\n__version__ = \"0.1.0\"\n")
            /\ Contains(fs[<<"src", name, "__init__.py">>].content, "\n__author__ = \"Jeremy\"\n")
            /\ fs[<<"pyproject.toml">>].type = "file"
            /\ Contains(fs[<<"pyproject.toml">>].content, "\nname = \"" \o name \o "\"\n")
            /\ Contains(fs[<<"pyproject.toml">>].content, "\nversion = \"0.1.0\"\n")

\* C9 witness: the package generator has completed for the name mypkg, over an
\* earlier pyproject.toml.
C9_Witness ==
    /\ kind = "package" /\ name = "mypkg" /\ JustCompleted(1)
    /\ IsFileWith(fs0, <<"pyproject.toml">>, OldContent)

\* C10: when two data-project runs with the same arguments have interleaved
\* their calls in any order and both have completed, having read the same year,
\* the tree is the tree one run alone leaves from the same initial tree; in
\* particular .gitignore holds the broader pattern and run.bash has mode 0o755.
C10_ConcurrentRunsLeaveSingleRunTree ==
    (\A p \in Procs : status[p] = "done") /\ yr[1] = yr[2] =>
        /\ fs = RunFrom(Prog(1), 1, fs0)
        /\ IsFileWith(fs, <<".gitignore">>,
               "# ignore all\n*\n\n# except for these files\n!README.md\n!.gitignore\n!*.py\n!*.bash")
        /\ fs[<<"run.bash">>].mode = 493

\* C10 witness: both runs have completed in the same year, over an earlier
\* run.bash that was not executable.
C10_Witness ==
    /\ \A p \in Procs : status[p] = "done"
    /\ yr[1] = yr[2]
    /\ fs0[<<"run.bash">>] = File(OldContent, 420)

\* The two runs do interleave: a state in which one run has written the broader
\* pattern over the first pattern the other run wrote after the truncation, so
\* that .gitignore holds the broader pattern followed by the last three bytes
\* of the first one.
ConcurrentWritesMix ==
    /\ \A p \in Procs : status[p] = "running"
    /\ IsFileWith(fs, <<".gitignore">>, project_gitignore_content \o "SE\n")

====
